---- MODULE Spec2Model ----
(***************************************************************************)
(* One rendering pass of app.py (the MSME Cybersecurity Insights           *)
(* dashboard): three CSV files are loaded, the primary table is validated, *)
(* and the page is laid out section by section.  A state is the position   *)
(* of the script (pc), the loaded tables, the script's variables and the   *)
(* elements rendered so far (out).                                         *)
(***************************************************************************)
EXTENDS Integers, Sequences, FiniteSets, TLC

VARIABLES
    full_csv, expl_csv, pred_csv,   \* the three files named in the sidebar
    df_full, df_expl, df_pred,      \* the loaded tables
    pc,                             \* the section the script is about to run
    raised,                         \* the exception that ended the pass, or None
    out,                            \* the elements rendered so far, in order
    total, total_anoms, total_norms, anom_rate,
    mix_df,                         \* the two counts behind the pie chart
    accuracy, cm, cm_df,
    top_threats, top_ips, peak,
    cards                           \* the alert cards rendered so far

vars == <<full_csv, expl_csv, pred_csv, df_full, df_expl, df_pred, pc, raised,
          out, total, total_anoms, total_norms, anom_rate, mix_df, accuracy,
          cm, cm_df, top_threats, top_ips, peak, cards>>

\* A Python name that is not bound yet / a call that returned nothing.
None == "None"

(***************************************************************************)
(* Bounds of the model.                                                    *)
(***************************************************************************)
MaxFull == 2       \* rows of the full dataset, label columns enumerated
MaxPred == 2       \* rows of the prediction results, labels enumerated
MaxTop == 5        \* rows of a reasons / host column, values enumerated
MaxTs == 3         \* rows of a timestamp column, values enumerated
MaxCards == 6      \* rows of a summary column, values enumerated
MaxSmall == 1      \* rows when every subset of columns is enumerated

(***************************************************************************)
(* Files and tables.  A file is missing/unreadable (ok = FALSE) or holds a *)
(* header and n rows of text cells; only the columns the script probes are *)
(* kept, so a file with n rows and none of them still has n rows.  A blank *)
(* cell is "".                                                             *)
(***************************************************************************)
MissingFile == [ok |-> FALSE, n |-> 0, cols |-> << >>]

File(k, f) == [ok |-> TRUE, n |-> k, cols |-> f]

\* Every file with exactly the columns S, k rows and cells drawn from vals.
FilesOver(S, k, vals) == { File(k, f) : f \in [S -> [1..k -> vals]] }

\* Cells that pandas reads as integers, and the integer each one is.
NumText == {"0", "1", "2", "7", "8"}

ToInt(s) ==
    CASE s = "0" -> 0
      [] s = "1" -> 1
      [] s = "2" -> 2
      [] s = "7" -> 7
      [] s = "8" -> 8

\* str() of an integer cell value: its digits.
IntStr(v) ==
    CASE v = 0 -> "0"
      [] v = 1 -> "1"
      [] v = 2 -> "2"
      [] v = 7 -> "7"
      [] v = 8 -> "8"

\* pd.read_csv's column type: a column whose cells are all integers is an
\* int64 column, any other column is an object column of strings in which a
\* blank cell is NaN.  (The files of Init never mix integer cells and blank
\* cells, which would give a float64 column.)
IsIntCol(s) == Len(s) > 0 /\ \A i \in 1..Len(s) : s[i] \in NumText

ParseCol(s) == IF IsIntCol(s) THEN [i \in 1..Len(s) |-> ToInt(s[i])] ELSE s

EmptyDF == [n |-> 0, cols |-> << >>, dtype |-> << >>]

load_csv(file) ==
    IF ~file.ok
    THEN EmptyDF
    ELSE [n     |-> file.n,
          cols  |-> [c \in DOMAIN file.cols |-> ParseCol(file.cols[c])],
          dtype |-> [c \in DOMAIN file.cols |->
                        IF IsIntCol(file.cols[c]) THEN "int64" ELSE "object"]]

\* DataFrame.empty
empty(df) == df.n = 0

HasCol(df, c) == c \in DOMAIN df.cols

IsNaN(df, c, i) == df.dtype[c] = "object" /\ df.cols[c][i] = ""

\* str(value) of the cell in row i of column c
CellStr(df, c, i) ==
    IF df.dtype[c] = "int64" THEN IntStr(df.cols[c][i])
    ELSE IF df.cols[c][i] = "" THEN "nan" ELSE df.cols[c][i]

(***************************************************************************)
(* The input files of the model.                                           *)
(***************************************************************************)
FullFiles ==
    {MissingFile} \cup
    UNION { UNION { FilesOver(S, k, {"0", "1"})
                    : S \in SUBSET {"predicted", "classification"} }
            : k \in 0..MaxFull }

FullBasic ==
    { MissingFile,
      File(1, << >>),
      File(2, [c \in {"predicted"} |-> <<"1", "0">>]) }

PredFiles ==
    {MissingFile} \cup
    UNION { UNION { FilesOver(S, k, {"0", "1", "2"})
                    : S \in SUBSET {"true_label", "predicted"} }
            : k \in 0..MaxPred }

PredBasic ==
    { MissingFile,
      File(1, [c \in {"true_label"} |-> <<"1">>]),
      File(1, [c \in {"true_label", "predicted"} |-> <<"0">>]),
      File(2, [c \in {"true_label", "predicted"} |-> <<"0", "1">>]) }

TsText == {"2024-01-01 10:15", "2024-01-01 10:40", "2024-01-01 12:05",
           "not a date", ""}

SmallVals(c) ==
    CASE c = "reasons"   -> {"sqli", "7"}
      [] c = "host"      -> {"h1", "7"}
      [] c = "timestamp" -> {"2024-01-01 10:15", "not a date"}
      [] c = "summary"   -> {"s1", ""}

ExplSmall ==
    UNION { UNION { { File(k, [c \in S |-> CASE c = "reasons"   -> r
                                             [] c = "host"      -> h
                                             [] c = "timestamp" -> t
                                             [] c = "summary"   -> u]) :
                      r \in [1..k -> SmallVals("reasons")],
                      h \in [1..k -> SmallVals("host")],
                      t \in [1..k -> SmallVals("timestamp")],
                      u \in [1..k -> SmallVals("summary")] }
                    : S \in SUBSET {"reasons", "host", "timestamp", "summary"} }
            : k \in 0..MaxSmall }

ExplTop ==
    UNION { UNION { FilesOver({c}, k, {"x", "y", "z", "w"}) : c \in {"reasons", "host"} }
            : k \in 0..MaxTop }

ExplBlank ==
    UNION { UNION { FilesOver({c}, k, {"x", ""}) : c \in {"reasons", "host"} }
            : k \in 1..(MaxSmall + 1) }

ExplTs == UNION { FilesOver({"timestamp"}, k, TsText) : k \in 0..MaxTs }

ExplCards == UNION { FilesOver({"summary"}, k, {"a", "b"}) : k \in 1..MaxCards }

ExplFields ==
    UNION { UNION { FilesOver(S, k, {"v", ""}) : S \in SUBSET {"summary", "Method", "URL"} }
            : k \in 1..MaxSmall }

ExplFiles ==
    {MissingFile} \cup ExplSmall \cup ExplTop \cup ExplBlank \cup ExplTs
        \cup ExplCards \cup ExplFields

ExplBasic ==
    { MissingFile,
      File(1, << >>),
      File(2, << >>),
      File(2, [c \in {"reasons"} |-> <<"x", "y">>]) }

(***************************************************************************)
(* Init: the script has drawn the title and the sidebar and is about to    *)
(* load the three files.  One of the three files ranges over its whole     *)
(* set while the other two range over a few representative files.          *)
(***************************************************************************)
Init ==
    /\ \/ full_csv \in FullFiles /\ expl_csv \in ExplBasic /\ pred_csv \in PredBasic
       \/ full_csv \in FullBasic /\ expl_csv \in ExplBasic /\ pred_csv \in PredFiles
       \/ full_csv \in {File(1, << >>)} /\ expl_csv \in ExplFiles
             /\ pred_csv \in {MissingFile, File(2, [c \in {"true_label", "predicted"} |-> <<"0", "1">>])}
    /\ df_full = None /\ df_expl = None /\ df_pred = None
    /\ pc = "load"
    /\ raised = None
    /\ out = << >>
    /\ total = None /\ total_anoms = None /\ total_norms = None /\ anom_rate = None
    /\ mix_df = None
    /\ accuracy = None /\ cm = None /\ cm_df = None
    /\ top_threats = None /\ top_ips = None /\ peak = None
    /\ cards = << >>

(***************************************************************************)
(* The sections of the script, in the order they run.                      *)
(***************************************************************************)
\* Lines 26-28: the three files are loaded.
Load ==
    /\ pc = "load"
    /\ df_full' = load_csv(full_csv)
    /\ df_expl' = load_csv(expl_csv)
    /\ df_pred' = load_csv(pred_csv)
    /\ pc' = "validate"
    /\ UNCHANGED <<full_csv, expl_csv, pred_csv, raised, out, total, total_anoms,
                   total_norms, anom_rate, mix_df, accuracy, cm, cm_df, top_threats,
                   top_ips, peak, cards>>

\* Validate without the st.stop() of line 35: the error is shown and the
\* script goes on.
ValidateNoStop ==
    /\ pc = "validate"
    /\ out' = out
          \o (IF empty(df_full) THEN <<"error:Could not load full dataset.">> ELSE << >>)
          \o (IF empty(df_expl) THEN <<"warning:No explained anomalies file loaded.">> ELSE << >>)
          \o (IF empty(df_pred) THEN <<"warning:No prediction results file loaded.">> ELSE << >>)
    /\ pc' = "split"
    /\ UNCHANGED <<full_csv, expl_csv, pred_csv, df_full, df_expl, df_pred, raised,
                   total, total_anoms, total_norms, anom_rate, mix_df, accuracy,
                   cm, cm_df, top_threats, top_ips, peak, cards>>

\* Lines 33-41: st.error and st.stop on an empty full dataset, a warning for
\* each of the other two tables that is empty.
Validate ==
    /\ pc = "validate"
    /\ IF empty(df_full)
       THEN /\ out' = out \o <<"error:Could not load full dataset.">>
            /\ pc' = "stopped"
       ELSE /\ out' = out
                  \o (IF empty(df_expl) THEN <<"warning:No explained anomalies file loaded.">> ELSE << >>)
                  \o (IF empty(df_pred) THEN <<"warning:No prediction results file loaded.">> ELSE << >>)
            /\ pc' = "split"
    /\ UNCHANGED <<full_csv, expl_csv, pred_csv, df_full, df_expl, df_pred, raised,
                   total, total_anoms, total_norms, anom_rate, mix_df, accuracy,
                   cm, cm_df, top_threats, top_ips, peak, cards>>

\* (df[c] == 1).sum(): the cells of the first k rows that equal the integer 1
\* (a string cell never does).
RECURSIVE SumEq1(_, _, _)
SumEq1(df, c, k) ==
    IF k = 0 THEN 0
    ELSE SumEq1(df, c, k - 1)
         + (IF df.dtype[c] = "int64" /\ df.cols[c][k] = 1 THEN 1 ELSE 0)

\* TotalAnoms with the two column probes in the other order.
TotalAnomsClassificationFirst(full, expl) ==
    IF HasCol(full, "classification") THEN SumEq1(full, "classification", full.n)
    ELSE IF HasCol(full, "predicted") THEN SumEq1(full, "predicted", full.n)
    ELSE expl.n

\* Lines 48-54
TotalAnoms(full, expl) ==
    IF HasCol(full, "predicted") THEN SumEq1(full, "predicted", full.n)
    ELSE IF HasCol(full, "classification") THEN SumEq1(full, "classification", full.n)
    ELSE expl.n

\* Line 57: the rate is kept as the fraction num / den (a percentage).
AnomRate(anoms, tot) ==
    IF tot > 0 THEN [num |-> anoms * 100, den |-> tot] ELSE [num |-> 0, den |-> 1]

\* Lines 46-57
BasicSplit ==
    /\ pc = "split"
    /\ total' = df_full.n
    /\ total_anoms' = TotalAnoms(df_full, df_expl)
    /\ total_norms' = df_full.n - TotalAnoms(df_full, df_expl)
    /\ anom_rate' = AnomRate(TotalAnoms(df_full, df_expl), df_full.n)
    /\ pc' = "metrics"
    /\ UNCHANGED <<full_csv, expl_csv, pred_csv, df_full, df_expl, df_pred, raised,
                   out, mix_df, accuracy, cm, cm_df, top_threats, top_ips, peak, cards>>

\* Lines 62-65
Metrics ==
    /\ pc = "metrics"
    /\ out' = out \o <<"metric:Total Requests", "metric:Detected Anomalies",
                       "metric:Anomaly Rate">>
    /\ pc' = "charts"
    /\ UNCHANGED <<full_csv, expl_csv, pred_csv, df_full, df_expl, df_pred, raised,
                   total, total_anoms, total_norms, anom_rate, mix_df, accuracy,
                   cm, cm_df, top_threats, top_ips, peak, cards>>

\* Lines 72-81
Charts ==
    /\ pc = "charts"
    /\ mix_df' = [Normal |-> total_norms, Anomalous |-> total_anoms]
    /\ out' = out \o <<"subheader:Traffic Mix", "chart:Normal vs Anomalous">>
    /\ pc' = "accuracy"
    /\ UNCHANGED <<full_csv, expl_csv, pred_csv, df_full, df_expl, df_pred, raised,
                   total, total_anoms, total_norms, anom_rate, accuracy, cm, cm_df,
                   top_threats, top_ips, peak, cards>>

\* (acc_df["true_label"] == acc_df["predicted"]).sum() over the first k rows
RECURSIVE Matches(_, _)
Matches(df, k) ==
    IF k = 0 THEN 0
    ELSE Matches(df, k - 1)
         + (IF df.cols["true_label"][k] = df.cols["predicted"][k] THEN 1 ELSE 0)

\* Line 94: the mean of the matches as a percentage, kept as num / den.
Accuracy(df) == [num |-> Matches(df, df.n) * 100, den |-> df.n]

Least(S) == CHOOSE v \in S : \A w \in S : v <= w

\* The labels of a set in increasing order.
RECURSIVE SortSet(_)
SortSet(S) == IF S = {} THEN << >> ELSE <<Least(S)>> \o SortSet(S \ {Least(S)})

\* sklearn's unique_labels(y_true, y_pred): the labels that occur in either
\* column, sorted.
unique_labels(df) ==
    SortSet({df.cols["true_label"][r] : r \in 1..df.n}
            \cup {df.cols["predicted"][r] : r \in 1..df.n})

\* Line 111: confusion_matrix(y_true, y_pred) without a labels argument: one
\* row and one column per label that occurs, cell (i, j) counting the rows whose
\* true label is the i-th label and whose predicted label is the j-th.
confusion_matrix(df) ==
    LET L == unique_labels(df)
    IN  [i \in 1..Len(L) |->
            [j \in 1..Len(L) |->
                Cardinality({r \in 1..df.n : /\ df.cols["true_label"][r] = L[i]
                                             /\ df.cols["predicted"][r] = L[j]})]]

\* Lines 112-116: pd.DataFrame(cm, index=[2 names], columns=[2 names]) accepts
\* only a matrix of 2 rows and 2 columns.
ShapeFits(m) == Len(m) = 2

\* Line 90
AccuracyReady(df) ==
    ~empty(df) /\ HasCol(df, "true_label") /\ HasCol(df, "predicted")

\* Lines 88-127
AccuracySection ==
    /\ pc = "accuracy"
    /\ IF AccuracyReady(df_pred)
       THEN /\ accuracy' = Accuracy(df_pred)
            /\ cm' = confusion_matrix(df_pred)
            /\ IF ShapeFits(confusion_matrix(df_pred))
               THEN /\ cm_df' = [index   |-> <<"Actual Normal", "Actual Attack">>,
                                 columns |-> <<"Pred Normal", "Pred Attack">>,
                                 values  |-> confusion_matrix(df_pred)]
                    /\ out' = out \o <<"subheader:Model Accuracy & Regression Plot",
                                       "metric:Model Accuracy",
                                       "chart:True Label vs Predicted",
                                       "chart:Confusion Matrix">>
                    /\ raised' = raised
                    /\ pc' = "insights"
               ELSE /\ cm_df' = cm_df
                    /\ out' = out \o <<"subheader:Model Accuracy & Regression Plot",
                                       "metric:Model Accuracy",
                                       "chart:True Label vs Predicted">>
                    /\ raised' = "ValueError"
                    /\ pc' = "crashed"
       ELSE /\ out' = out \o <<"subheader:Model Accuracy & Regression Plot",
                               "warning:Prediction dataset not loaded or missing columns.">>
            /\ pc' = "insights"
            /\ UNCHANGED <<accuracy, cm, cm_df, raised>>
    /\ UNCHANGED <<full_csv, expl_csv, pred_csv, df_full, df_expl, df_pred, total,
                   total_anoms, total_norms, anom_rate, mix_df, top_threats,
                   top_ips, peak, cards>>

Min(a, b) == IF a <= b THEN a ELSE b

\* DataFrame.head / Series.head / list slicing: the first k elements
head(s, k) == SubSeq(s, 1, Min(k, Len(s)))

\* The distinct non-NaN values among the first k rows of column c, in the
\* order of their first appearance (the keys of pandas' value_counts table).
RECURSIVE Uniques(_, _, _)
Uniques(df, c, k) ==
    IF k = 0 THEN << >>
    ELSE LET u == Uniques(df, c, k - 1)
             v == df.cols[c][k]
         IN  IF IsNaN(df, c, k) \/ \E i \in 1..Len(u) : u[i] = v
             THEN u
             ELSE Append(u, v)

\* The number of rows of column c holding v
CountOf(df, c, v) == Cardinality({r \in 1..df.n : df.cols[c][r] = v})

\* InsertByCount with a sort that puts a value ahead of the earlier values of
\* the same count.
InsertByCountUnstable(df, c, keys, v) ==
    LET ahead == {i \in 1..Len(keys) : CountOf(df, c, keys[i]) > CountOf(df, c, v)}
        k == Cardinality(ahead)
    IN  SubSeq(keys, 1, k) \o <<v>> \o SubSeq(keys, k + 1, Len(keys))

\* v placed into keys, which are in decreasing order of count, behind every
\* key whose count is at least v's (the sort keeps equal counts in order).
InsertByCount(df, c, keys, v) ==
    LET ahead == {i \in 1..Len(keys) : CountOf(df, c, keys[i]) >= CountOf(df, c, v)}
        k == Cardinality(ahead)
    IN  SubSeq(keys, 1, k) \o <<v>> \o SubSeq(keys, k + 1, Len(keys))

RECURSIVE SortByCount(_, _, _, _)
SortByCount(df, c, u, k) ==
    IF k = 0 THEN << >>
    ELSE InsertByCount(df, c, SortByCount(df, c, u, k - 1), u[k])

\* Series.value_counts().index: the distinct values, most frequent first
value_counts(df, c) ==
    SortByCount(df, c, Uniques(df, c, df.n), Len(Uniques(df, c, df.n)))

\* Lines 139 and 144: value_counts().head(3).index.tolist()
Top3(df, c) == head(value_counts(df, c), 3)

\* str(v) of a value of column c
Str(df, c, v) == IF df.dtype[c] = "int64" THEN IntStr(v) ELSE v

\* ', '.join(seq) of strings
RECURSIVE Join(_)
Join(seq) ==
    IF Len(seq) = 0 THEN ""
    ELSE IF Len(seq) = 1 THEN seq[1]
    ELSE seq[1] \o ", " \o Join(Tail(seq))

\* Line 140: ', '.join(top_threats) takes strings only; the values of an int64
\* column are not strings.
JoinRaises(df, c, top) == df.dtype[c] = "int64" /\ Len(top) > 0

\* Line 145: ', '.join(map(str, top_ips))
JoinStr(df, c, top) == Join([i \in 1..Len(top) |-> Str(df, c, top[i])])

\* pandas' NaT, the value of a timestamp that did not parse
NaT == -1

\* pd.to_datetime(cell, errors="coerce"), in minutes from 2024-01-01 00:00
ParseTs(s) ==
    CASE s = "2024-01-01 10:15" -> 615
      [] s = "2024-01-01 10:40" -> 640
      [] s = "2024-01-01 12:05" -> 725
      [] OTHER -> NaT

\* Line 149
to_datetime(col) == [i \in 1..Len(col) |-> ParseTs(col[i])]

Coerced(df) ==
    [df EXCEPT !.cols["timestamp"] = to_datetime(df.cols["timestamp"]),
               !.dtype["timestamp"] = "datetime64[ns]"]

\* The start of the hour a timestamp falls in
HourOf(t) == (t \div 60) * 60

Parsed(ts) == {i \in 1..Len(ts) : ts[i] # NaT}

\* Line 150: resample("H") cannot bin an index whose values are all NaT (its
\* range has neither start nor end) and raises.
ResampleRaises(ts) == Len(ts) > 0 /\ Parsed(ts) = {}

\* Line 150: set_index("timestamp").resample("H").size(): one bin per hour
\* from the hour of the earliest timestamp to the hour of the latest, each
\* with the number of timestamps in it; NaT rows belong to no bin.
Hourly(ts) ==
    IF Parsed(ts) = {} THEN << >>
    ELSE LET lo == HourOf(Least({ts[i] : i \in Parsed(ts)}))
             hi == HourOf(CHOOSE v \in {ts[i] : i \in Parsed(ts)} :
                              \A i \in Parsed(ts) : ts[i] <= v)
         IN  [b \in 1..((hi - lo) \div 60 + 1) |->
                [start |-> lo + 60 * (b - 1),
                 size  |-> Cardinality({i \in Parsed(ts) :
                                          HourOf(ts[i]) = lo + 60 * (b - 1)})]]

\* Line 152: idxmax(): the label of the first bin of greatest size
IdxMax(hourly) ==
    hourly[Least({b \in 1..Len(hourly) :
                    \A d \in 1..Len(hourly) : hourly[d].size <= hourly[b].size})].start

\* Line 153: peak.strftime('%Y-%m-%d %H:00')
Strftime(t) ==
    CASE t = 600 -> "2024-01-01 10:00"
      [] t = 660 -> "2024-01-01 11:00"
      [] t = 720 -> "2024-01-01 12:00"

\* Lines 134-155
Insights ==
    /\ pc = "insights"
    /\ IF ~empty(df_expl)
       THEN LET r_has  == HasCol(df_expl, "reasons")
                r_fail == r_has /\ JoinRaises(df_expl, "reasons", Top3(df_expl, "reasons"))
                h_has  == ~r_fail /\ HasCol(df_expl, "host")
                t_has  == ~r_fail /\ HasCol(df_expl, "timestamp")
                ts     == to_datetime(df_expl.cols["timestamp"])
                t_fail == t_has /\ ResampleRaises(ts)
                t_ok   == t_has /\ ~t_fail /\ Len(Hourly(ts)) > 0
            IN  /\ top_threats' = IF r_has THEN Top3(df_expl, "reasons") ELSE top_threats
                /\ top_ips' = IF h_has THEN Top3(df_expl, "host") ELSE top_ips
                /\ df_expl' = IF t_has THEN Coerced(df_expl) ELSE df_expl
                /\ peak' = IF t_ok THEN IdxMax(Hourly(ts)) ELSE peak
                /\ out' = out
                     \o <<"subheader:Key Insights">>
                     \o (IF r_has /\ ~r_fail
                         THEN <<"write:Most common threats detected: "
                                   \o Join(Top3(df_expl, "reasons"))>>
                         ELSE << >>)
                     \o (IF h_has
                         THEN <<"write:Top suspicious sources: "
                                   \o JoinStr(df_expl, "host", Top3(df_expl, "host"))>>
                         ELSE << >>)
                     \o (IF t_ok
                         THEN <<"write:Peak suspicious activity at: "
                                   \o Strftime(IdxMax(Hourly(ts)))>>
                         ELSE << >>)
                /\ raised' = IF r_fail THEN "TypeError"
                             ELSE IF t_fail THEN "ValueError" ELSE raised
                /\ pc' = IF r_fail \/ t_fail THEN "crashed" ELSE "actions"
       ELSE /\ out' = out \o <<"subheader:Key Insights",
                               "info:No GenAI explanations available yet.">>
            /\ pc' = "actions"
            /\ UNCHANGED <<df_expl, top_threats, top_ips, peak, raised>>
    /\ UNCHANGED <<full_csv, expl_csv, pred_csv, df_full, df_pred, total, total_anoms,
                   total_norms, anom_rate, mix_df, accuracy, cm, cm_df, cards>>

\* Lines 162-169
RecommendedActions ==
    /\ pc = "actions"
    /\ out' = out \o <<"subheader:Recommended Actions", "write:Recommended Actions">>
    /\ pc' = "alerts"
    /\ UNCHANGED <<full_csv, expl_csv, pred_csv, df_full, df_expl, df_pred, raised,
                   total, total_anoms, total_norms, anom_rate, mix_df, accuracy,
                   cm, cm_df, top_threats, top_ips, peak, cards>>

\* row.get(c, default) of row i: the cell when the table has the column (a NaN
\* cell included), the default only when it has not.
Get(df, i, c, default) == IF HasCol(df, c) THEN CellStr(df, c, i) ELSE default

\* Lines 181-185: the texts of the card of row i
Card(df, i) ==
    [summary          |-> Get(df, i, "summary", "Suspicious request"),
     reasons          |-> Get(df, i, "reasons", "-"),
     impact           |-> Get(df, i, "impact", "-"),
     suggested_action |-> Get(df, i, "suggested_action", "-"),
     Method           |-> Get(df, i, "Method", "-"),
     URL              |-> Get(df, i, "URL", "-"),
     UserAgent        |-> Get(df, i, "User-Agent", "-")]

\* sample taking the last 5 rows, df_expl.tail(5)
sampleTail(df) ==
    SubSeq([i \in 1..df.n |-> i], df.n - Min(5, df.n) + 1, df.n)

\* Line 179: df_expl.head(5), as the row numbers of the sample
sample(df) == head([i \in 1..df.n |-> i], 5)

\* Lines 176-188
SampleAlerts ==
    /\ pc = "alerts"
    /\ IF ~empty(df_expl)
       THEN /\ cards' = [k \in 1..Len(sample(df_expl)) |-> Card(df_expl, sample(df_expl)[k])]
            /\ out' = out \o <<"subheader:Sample Alerts (Top 5)">>
                          \o [k \in 1..Len(sample(df_expl)) |->
                                "error:" \o Card(df_expl, sample(df_expl)[k]).summary]
       ELSE /\ cards' = cards
            /\ out' = out \o <<"subheader:Sample Alerts (Top 5)",
                               "success:No anomaly explanations to show.">>
    /\ pc' = "done"
    /\ UNCHANGED <<full_csv, expl_csv, pred_csv, df_full, df_expl, df_pred, raised,
                   total, total_anoms, total_norms, anom_rate, mix_df, accuracy,
                   cm, cm_df, top_threats, top_ips, peak>>

Next ==
    \/ Load
    \/ Validate
    \/ BasicSplit
    \/ Metrics
    \/ Charts
    \/ AccuracySection
    \/ Insights
    \/ RecommendedActions
    \/ SampleAlerts

Spec == Init /\ [][Next]_vars

(***************************************************************************)
(* Properties.                                                             *)
(***************************************************************************)
Range(s) == {s[i] : i \in 1..Len(s)}

Shown(text) == text \in Range(out)

\* The basic split has run.
PastSplit ==
    pc \in {"metrics", "charts", "accuracy", "insights", "actions", "alerts",
            "done", "crashed"}

\* The pass is over: it ran to the end or an exception ended it.
Ended == pc \in {"done", "crashed"}

\* The rows of a file column whose cell is v
RowsWith(col, v) == {i \in 1..Len(col) : col[i] = v}

\* C1: when the full dataset has no rows (a file that failed to load
\* included), the pass never gets past validation, and all it renders is the
\* error notice: no metric, chart, insight, recommended action or alert card.
C1_EmptyFullHalts ==
    (pc # "load" /\ full_csv.n = 0) =>
        /\ pc \in {"validate", "stopped"}
        /\ Range(out) \subseteq {"error:Could not load full dataset."}
        /\ (pc = "stopped" => out = <<"error:Could not load full dataset.">>)
        /\ cards = << >>

C1_Witness ==
    /\ pc = "stopped"
    /\ ~full_csv.ok
    /\ expl_csv.n > 0
    /\ pred_csv.n > 0
    /\ out = <<"error:Could not load full dataset.">>

\* C2: with a non-empty full dataset, a pass that is over has rendered the
\* traffic metrics and the pie chart; it has skipped the insights and the
\* sample alerts with their notices exactly when the explained anomalies are
\* empty and has rendered them otherwise; it has skipped the accuracy section
\* with its notice exactly when the predictions are empty or lack a label
\* column and has rendered its metric, scatter and confusion matrix otherwise.
C2_IndependentDegradation ==
    (Ended /\ full_csv.n > 0) =>
        /\ Shown("metric:Total Requests")
        /\ Shown("chart:Normal vs Anomalous")
        /\ (expl_csv.n = 0) <=> Shown("info:No GenAI explanations available yet.")
        /\ (expl_csv.n = 0) <=> Shown("success:No anomaly explanations to show.")
        /\ (expl_csv.n > 0) =>
              /\ Shown("subheader:Key Insights")
              /\ Len(cards) > 0
        /\ (pred_csv.n = 0 \/ {"true_label", "predicted"} \ DOMAIN pred_csv.cols # {})
              <=> Shown("warning:Prediction dataset not loaded or missing columns.")
        /\ (pred_csv.n > 0 /\ {"true_label", "predicted"} \subseteq DOMAIN pred_csv.cols)
              => /\ Shown("metric:Model Accuracy")
                 /\ Shown("chart:True Label vs Predicted")
                 /\ Shown("chart:Confusion Matrix")

\* C3: the anomaly count is the number of rows of the full dataset whose
\* predicted cell is 1 when it has a predicted column (a classification
\* column or not), else the number of rows whose classification cell is 1
\* when it has that column, else the row count of the explained anomalies.
C3_AnomalyTiers ==
    PastSplit =>
        total_anoms =
            IF "predicted" \in DOMAIN full_csv.cols
            THEN Cardinality(RowsWith(full_csv.cols["predicted"], "1"))
            ELSE IF "classification" \in DOMAIN full_csv.cols
            THEN Cardinality(RowsWith(full_csv.cols["classification"], "1"))
            ELSE expl_csv.n

C3_Witness ==
    /\ pc = "metrics"
    /\ {"predicted", "classification"} \subseteq DOMAIN full_csv.cols
    /\ full_csv.cols["predicted"] = <<"1", "0">>
    /\ full_csv.cols["classification"] = <<"1", "1">>
    /\ total_anoms = 1

\* C4: whatever the three files hold, no section of a pass ends with an
\* unhandled exception: a pass halts at validation or runs to the end.
C4_NoUnhandledError == raised = None /\ pc # "crashed"

\* The rows of the predictions whose true label is a and predicted label is b
PairRows(a, b) ==
    RowsWith(pred_csv.cols["true_label"], a) \cap RowsWith(pred_csv.cols["predicted"], b)

\* C5: whenever the accuracy section has run, the confusion matrix shown is
\* the 2x2 matrix of the labels 0 and 1, Normal before Attack on both axes,
\* row = actual label and column = predicted label, each cell the number of
\* rows with that pair, whichever labels occur in the data.
C5_ConfusionMatrix2x2 ==
    (pc \in {"insights", "actions", "alerts", "done", "crashed"}
        /\ Shown("metric:Model Accuracy")) =>
        /\ Shown("chart:Confusion Matrix")
        /\ cm_df.values =
              << <<Cardinality(PairRows("0", "0")), Cardinality(PairRows("0", "1"))>>,
                 <<Cardinality(PairRows("1", "0")), Cardinality(PairRows("1", "1"))>> >>

\* The timestamp cells of the explained anomalies that parse
ParsedCells == {i \in 1..expl_csv.n : ParseTs(expl_csv.cols["timestamp"][i]) # NaT}

\* The number of parseable timestamps in the hour that starts at h
InHour(h) ==
    Cardinality({i \in ParsedCells : HourOf(ParseTs(expl_csv.cols["timestamp"][i])) = h})

\* C6: once the insights section has got to the timestamp column of non-empty
\* explained anomalies, no exception has ended the pass there; when no cell
\* parses no peak is reported; otherwise the peak reported is the start of an
\* hour that holds at least as many parseable timestamps as any other hour.
C6_PeakWindow ==
    (/\ Shown("subheader:Key Insights")
     /\ expl_csv.n > 0
     /\ "timestamp" \in DOMAIN expl_csv.cols
     /\ raised # "TypeError") =>
        /\ raised = None
        /\ IF ParsedCells = {}
           THEN \A h \in {600, 660, 720} :
                    ~Shown("write:Peak suspicious activity at: " \o Strftime(h))
           ELSE \E h \in {600, 660, 720} :
                    /\ Shown("write:Peak suspicious activity at: " \o Strftime(h))
                    /\ peak = h
                    /\ \A g \in {600, 660, 720} : InHour(g) <= InHour(h)

\* The non-blank values of a file column
Values(col) == Range(col) \ {""}

\* a comes before b in the list of the most frequent values of col: it occurs
\* more often, or as often and for the first time earlier.
Before(col, a, b) ==
    \/ Cardinality(RowsWith(col, a)) > Cardinality(RowsWith(col, b))
    \/ /\ Cardinality(RowsWith(col, a)) = Cardinality(RowsWith(col, b))
       /\ Least(RowsWith(col, a)) < Least(RowsWith(col, b))

\* t lists the (at most 3) most frequent values of col, most frequent first,
\* equal counts in the order of first appearance.
IsTop3(col, t) ==
    /\ Len(t) = Min(3, Cardinality(Values(col)))
    /\ \A i \in 1..Len(t) : \A j \in 1..Len(t) : i < j => Before(col, t[i], t[j])
    /\ \A v \in Values(col) \ Range(t) : \A i \in 1..Len(t) : Before(col, t[i], v)

Lists(col) == UNION {[1..k -> Values(col)] : k \in 0..3}

\* The line of the insights section for column c is prefix followed by the
\* top-3 list of the column.
ShowsTop3(c, prefix) ==
    \E t \in Lists(expl_csv.cols[c]) :
        /\ IsTop3(expl_csv.cols[c], t)
        /\ Shown(prefix \o Join(t))

Expected(i, c, placeholder, blank) ==
    IF c \notin DOMAIN expl_csv.cols THEN placeholder
    ELSE IF expl_csv.cols[c][i] = "" THEN blank
    ELSE expl_csv.cols[c][i]

\* C8: on every alert card the headline is "Suspicious request" when the
\* summary column is absent or the row's summary is empty, and else the
\* summary; Method and URL each show "-" when the column is missing and else
\* their own value, whatever the other fields of the card are.
C8_FieldPlaceholders ==
    \A k \in 1..Len(cards) :
        /\ cards[k].summary = Expected(k, "summary", "Suspicious request", "Suspicious request")
        /\ cards[k].Method = Expected(k, "Method", "-", cards[k].Method)
        /\ cards[k].URL = Expected(k, "URL", "-", cards[k].URL)

\* The headline the card of row i has in the page
Headline(i) == "error:" \o Expected(i, "summary", "Suspicious request", "nan")

\* The elements of out that follow the subheader of the sample alerts
AfterAlertsHeader ==
    LET at == Least({i \in 1..Len(out) : out[i] = "subheader:Sample Alerts (Top 5)"})
    IN  SubSeq(out, at + 1, Len(out))

\* C9: a pass that is over for n >= 1 explained anomalies has rendered
\* exactly min(5, n) cards, the k-th card being the card of the k-th row of
\* the file, and no exception comes from the sample alerts.
C9_FirstFiveCards ==
    /\ (pc = "done" /\ expl_csv.n >= 1) =>
          /\ Len(cards) = Min(5, expl_csv.n)
          /\ AfterAlertsHeader = [k \in 1..Min(5, expl_csv.n) |-> Headline(k)]
          /\ \A k \in 1..Len(cards) : "error:" \o cards[k].summary = Headline(k)
    /\ pc = "crashed" => ~Shown("subheader:Sample Alerts (Top 5)")

C9_Witness ==
    /\ pc = "done"
    /\ expl_csv.n = 6
    /\ "summary" \in DOMAIN expl_csv.cols
    /\ expl_csv.cols["summary"] = <<"a", "b", "b", "a", "a", "b">>
    /\ Len(cards) = 5
    /\ cards[2].summary = "b"

\* C10: once the traffic summary is computed, the anomaly count lies between
\* 0 and the row count of the full dataset, the normal count is not negative
\* and the anomaly rate lies between 0 and 100 percent.
C10_CountsInRange ==
    PastSplit =>
        /\ 0 <= total_anoms /\ total_anoms <= total
        /\ total_norms >= 0
        /\ 0 <= anom_rate.num /\ anom_rate.num <= 100 * anom_rate.den
====
